---- MODULE Spec2Model ----
(***************************************************************************)
(* Model of scripts/3_fuse_semantics.py: fuse_semantics projects the       *)
(* sparse COLMAP points into every image, gathers one mask label per       *)
(* (point, image) as a vote, resolves each point by majority vote and      *)
(* writes a coloured point cloud.                                          *)
(*                                                                         *)
(* Coordinates are integers; a de-homogenized pixel coordinate u/w is kept *)
(* as the exact fraction <<u, w>>, compared by cross multiplication and    *)
(* truncated toward zero as astype(int) does.                              *)
(***************************************************************************)
EXTENDS Integers, Sequences, FiniteSets, TLC

VARIABLES
    recon,               \* state of the COLMAP model directory
    points_3d,           \* xyz of the sparse points, in load order
    images,              \* reconstruction.images, in iteration order
    pc,                  \* position in fuse_semantics
    idx,                 \* number of loop iterations begun so far
    point_labels,        \* the vote list of every point
    visible_3d_indices,  \* of the image projected last
    valid_2d_coords,     \* of the image projected last
    final_labels,        \* the consensus labels
    warned,              \* the "no semantic labels" warning was printed
    output               \* the point cloud written, or None

vars == <<recon, points_3d, images, pc, idx, point_labels,
          visible_3d_indices, valid_2d_coords, final_labels, warned, output>>

\* ---------------------------------------------------------------- bounds
MaxPoints == 2
MaxImages == 3

\* ---------------------------------------------------------------- inputs
\* The single camera of the reconstruction: cam.width, cam.height and
\* cam.calibration_matrix() (principal point cx = 1, unit focal length).
Width == 3
Height == 2
K == << <<1, 0, 1>>, <<0, 1, 0>>, <<0, 0, 1>> >>

\* image.cam_from_world().matrix()[:3, :] : the 3x4 world-to-camera
\* transforms the images are drawn from: the identity pose and a pose
\* moved back by one unit along the optical axis.
RtFront == << <<1, 0, 0, 0>>, <<0, 1, 0, 0>>, <<0, 0, 1, 0>> >>
RtShift == << <<1, 0, 0, 0>>, <<0, 1, 0, 0>>, <<0, 0, 1, 1>> >>
CamFromWorld(pose) == IF pose = "front" THEN RtFront ELSE RtShift

\* The state of <stem>_mask.png on disk: no such file, a file PIL cannot
\* decode, or one of two Height x Width grids of uint8 labels (rows y,
\* columns x, 0-based in the code, 1-based here).
MaskA == << <<3, 0, 3>>, <<5, 3, 0>> >>
MaskB == << <<5, 3, 0>>, <<0, 5, 5>> >>
Readable == {"A", "B"}
\* np.array(Image.open(mask_file))
MaskArray(file) == IF file = "A" THEN MaskA ELSE MaskB

\* reconstruction.images holds any sequence of these images
ImageSet == { [Rt |-> "front", mask |-> "A"],
              [Rt |-> "shift", mask |-> "B"],
              [Rt |-> "front", mask |-> "absent"],
              [Rt |-> "front", mask |-> "corrupt"] }

\* p.xyz of the sparse points the reconstruction may hold. With
\* (px, py) = (x/z + 1, y/z) in the front pose and (x/(z+1) + 1, y/(z+1))
\* in the shifted one:
\*   <<-1, 0, 1>>   front (0, 0)            shifted (1/2, 0)
\*   <<1, 1, 1>>    front (2, 1)            shifted (3/2, 1/2)
\*   <<2, 1, 0>>    front depth 0           shifted (3, 1)
\*   <<-4, 1, 2>>   front (-1, 1/2)         shifted (-1/3, 1/3)
\*   <<0, -1, -1>>  front depth -1, (1, 1)  shifted depth 0
PointSet == { <<-1, 0, 1>>, <<1, 1, 1>>, <<2, 1, 0>>, <<-4, 1, 2>>,
              <<0, -1, -1>> }

SeqsUpTo(S, n) == UNION { [1..k -> S] : k \in 0..n }

\* no point cloud file has been written
None == << >>

\* ---------------------------------------------------------------- helpers
RECURSIVE Dot(_, _)
Dot(a, b) == IF a = << >> THEN 0 ELSE Head(a) * Head(b) + Dot(Tail(a), Tail(b))

Column(B, j) == [k \in 1..Len(B) |-> B[k][j]]

RECURSIVE RowTimes(_, _, _)
\* the row vector a times the matrix B, from column j on
RowTimes(a, B, j) ==
    IF j > Len(B[1]) THEN << >>
    ELSE <<Dot(a, Column(B, j))>> \o RowTimes(a, B, j + 1)

RECURSIVE MatMulFrom(_, _, _)
MatMulFrom(A, B, i) ==
    IF i > Len(A) THEN << >>
    ELSE <<RowTimes(A[i], B, 1)>> \o MatMulFrom(A, B, i + 1)

\* A @ B
MatMul(A, B) == MatMulFrom(A, B, 1)

\* (proj_matrix @ [x, y, z, 1].T) for one point
ProjectPoint(P, p) == <<Dot(P[1], p \o <<1>>), Dot(P[2], p \o <<1>>),
                        Dot(P[3], p \o <<1>>)>>

\* proj_matrix = K @ Rt
ProjMatrix(img) == MatMul(K, CamFromWorld(img.Rt))

RECURSIVE ProjectFrom(_, _, _)
ProjectFrom(P, pts, k) ==
    IF k > Len(pts) THEN << >>
    ELSE <<ProjectPoint(P, pts[k])>> \o ProjectFrom(P, pts, k + 1)

\* points_2d_homo = (proj_matrix @ points_3d_homo.T).T
Points2dHomo(img, pts) == ProjectFrom(ProjMatrix(img), pts, 1)

\* visible_mask = points_2d_homo[:, 2] > 0
NoDepthTest(h) == h[3] # 0
Visible(h) == h[3] > 0

RECURSIVE Where(_, _)
\* np.where(flags)[0], as 1-based indices, from position k on
Where(flags, k) ==
    IF k > Len(flags) THEN << >>
    ELSE IF flags[k] THEN <<k>> \o Where(flags, k + 1)
    ELSE Where(flags, k + 1)

RECURSIVE Compress(_, _, _)
\* a[flags] : boolean-mask indexing, from position k on
Compress(a, flags, k) ==
    IF k > Len(flags) THEN << >>
    ELSE IF flags[k] THEN <<a[k]>> \o Compress(a, flags, k + 1)
    ELSE Compress(a, flags, k + 1)

\* n / d as an exact fraction of positive denominator (d = 0 gives inf or
\* nan, kept as <<n, 0>>: no comparison below puts it in bounds)
Divide(n, d) == IF d < 0 THEN <<-n, -d>> ELSE <<n, d>>

\* .astype(int) on the fraction n/d, d > 0: truncation toward zero
Trunc(f) == IF f[1] >= 0 THEN f[1] \div f[2] ELSE -((-f[1]) \div f[2])

\* (x >= 0) & (x < w) & (y >= 0) & (y < h) on the untruncated coordinates
BoundsAfterTrunc(xy, w, h) ==
    /\ Trunc(xy[1]) >= 0 /\ Trunc(xy[1]) < w
    /\ Trunc(xy[2]) >= 0 /\ Trunc(xy[2]) < h
InBounds(xy, w, h) ==
    /\ xy[1][1] >= 0 /\ xy[1][1] < w * xy[1][2]
    /\ xy[2][1] >= 0 /\ xy[2][1] < h * xy[2][2]

\* if label > 0
KeepsZero(label) == label >= 0
IsVote(label) == label > 0

\* ------------------------------------------------- one image's projection
RECURSIVE VisibleMask(_, _)
\* visible_mask, from row k on
VisibleMask(homo, k) ==
    IF k > Len(homo) THEN << >>
    ELSE <<Visible(homo[k])>> \o VisibleMask(homo, k + 1)

RECURSIVE Points2d(_, _, _)
\* points_2d = points_2d_homo[visible_mask, :2] / points_2d_homo[visible_mask, 2],
\* from row k on
Points2d(homo, visible_mask, k) ==
    IF k > Len(homo) THEN << >>
    ELSE IF visible_mask[k]
    THEN << <<Divide(homo[k][1], homo[k][3]), Divide(homo[k][2], homo[k][3])>> >>
         \o Points2d(homo, visible_mask, k + 1)
    ELSE Points2d(homo, visible_mask, k + 1)

RECURSIVE InBoundsMask(_, _, _, _)
\* in_bounds_mask, with h, w = cam.height, cam.width, from row k on
InBoundsMask(points_2d, w, h, k) ==
    IF k > Len(points_2d) THEN << >>
    ELSE <<InBounds(points_2d[k], w, h)>> \o InBoundsMask(points_2d, w, h, k + 1)

RECURSIVE AsInt(_, _)
\* rows.astype(int), from row k on
AsInt(rows, k) ==
    IF k > Len(rows) THEN << >>
    ELSE << <<Trunc(rows[k][1]), Trunc(rows[k][2])>> >> \o AsInt(rows, k + 1)

\* visible_3d_indices = np.where(visible_mask)[0][in_bounds_mask]
IndicesOfVisibleRows(img, pts) ==
    LET homo == Points2dHomo(img, pts)
        visible_mask == VisibleMask(homo, 1)
        points_2d == Points2d(homo, visible_mask, 1)
        in_bounds_mask == InBoundsMask(points_2d, Width, Height, 1)
    IN  Where(in_bounds_mask, 1)
Visible3dIndices(img, pts) ==
    LET homo == Points2dHomo(img, pts)
        visible_mask == VisibleMask(homo, 1)
        points_2d == Points2d(homo, visible_mask, 1)
        in_bounds_mask == InBoundsMask(points_2d, Width, Height, 1)
    IN  Compress(Where(visible_mask, 1), in_bounds_mask, 1)

\* valid_2d_coords = points_2d[in_bounds_mask].astype(int)
Valid2dCoords(img, pts) ==
    LET homo == Points2dHomo(img, pts)
        visible_mask == VisibleMask(homo, 1)
        points_2d == Points2d(homo, visible_mask, 1)
        in_bounds_mask == InBoundsMask(points_2d, Width, Height, 1)
    IN  AsInt(Compress(points_2d, in_bounds_mask, 1), 1)

\* mask[y, x]
MaskAt(mask, x, y) == mask[y + 1][x + 1]

\* point_labels[point_3d_idx].append(label)
Append2(labels, i, label) == [labels EXCEPT ![i] = Append(Append(@, label), label)]
Record(labels, i, label) == [labels EXCEPT ![i] = Append(@, label)]

RECURSIVE Gather(_, _, _, _, _)
\* for i, (x, y) in enumerate(valid_2d_coords): ... from position k on
Gather(labels, mask, ids, coords, k) ==
    IF k > Len(coords) THEN labels
    ELSE LET label == MaskAt(mask, coords[k][1], coords[k][2])
         IN  Gather(IF IsVote(label) THEN Record(labels, ids[k], label)
                    ELSE labels,
                    mask, ids, coords, k + 1)

\* ------------------------------------------------------------ resolution
\* the keys of Counter(votes), in first-insertion order
RECURSIVE Keys(_, _)
Keys(votes, k) ==
    IF k > Len(votes) THEN << >>
    ELSE IF \E j \in 1..(k - 1) : votes[j] = votes[k] THEN Keys(votes, k + 1)
    ELSE <<votes[k]>> \o Keys(votes, k + 1)

Count(votes, label) == Cardinality({k \in 1..Len(votes) : votes[k] = label})

RECURSIVE MaxByCount(_, _, _, _)
\* max(items, key=count): the first item of maximal count
MaxByCount(votes, keys, k, best) ==
    IF k > Len(keys) THEN best
    ELSE MaxByCount(votes, keys, k + 1,
                    IF Count(votes, keys[k]) > Count(votes, best)
                    THEN keys[k] ELSE best)

\* Counter(votes).most_common(1)[0][0], votes not empty
LeastCommon(votes) ==
    LET keys == Keys(votes, 1)
    IN  CHOOSE l \in {keys[k] : k \in 1..Len(keys)} :
            \A m \in {keys[k] : k \in 1..Len(keys)} :
                Count(votes, l) <= Count(votes, m)
MostCommon(votes) ==
    LET keys == Keys(votes, 1)
    IN  MaxByCount(votes, keys, 2, keys[1])

\* final_labels[i], from np.zeros and the loop over the points
Resolve(votes) == IF votes # << >> THEN MostCommon(votes) ELSE 0

\* ----------------------------------------------------------- colour map
Max(S) == CHOOSE m \in S : \A n \in S : n <= m

\* plt.get_cmap("viridis", max_label + 1)(label / max_label): the index of
\* the colour among the max_label + 1 resampled levels
CmapIndex(label, max_label) ==
    LET n == max_label + 1
        i == (label * n) \div max_label
    IN  IF i > n - 1 THEN n - 1 ELSE i

\* np.full_like(points_3d, 0.5)
Gray == [cmap |-> "none", level |-> 0]

OneGray(labels) ==
    LET max_label == Max({labels[i] : i \in 1..Len(labels)})
    IN  IF max_label = 0 THEN <<Gray>>
        ELSE [i \in 1..Len(labels) |->
                 [cmap |-> "viridis", level |-> CmapIndex(labels[i], max_label)]]
PointColors(labels) ==
    LET max_label == Max({labels[i] : i \in 1..Len(labels)})
    IN  IF max_label = 0 THEN [i \in 1..Len(labels) |-> Gray]
        ELSE [i \in 1..Len(labels) |->
                 [cmap |-> "viridis", level |-> CmapIndex(labels[i], max_label)]]

\* ------------------------------------------------------------------ Init
Init ==
    /\ recon \in {"missing", "empty", "corrupt", "ok"}
    /\ points_3d \in (IF recon = "ok" THEN SeqsUpTo(PointSet, MaxPoints)
                      ELSE {<< >>})
    /\ images \in (IF recon = "ok" THEN SeqsUpTo(ImageSet, MaxImages)
                   ELSE {<< >>})
    /\ pc = "start"
    /\ idx = 0
    /\ point_labels = << >>
    /\ visible_3d_indices = << >>
    /\ valid_2d_coords = << >>
    /\ final_labels = << >>
    /\ warned = FALSE
    /\ output = None

\* --------------------------------------------------------------- actions
\* the model directory does not exist or is empty: return
AbortNoModel ==
    /\ pc = "start"
    /\ recon \in {"missing", "empty"}
    /\ pc' = "aborted"
    /\ UNCHANGED <<recon, points_3d, images, idx, point_labels,
                   visible_3d_indices, valid_2d_coords, final_labels,
                   warned, output>>

\* pycolmap.Reconstruction raises: return
AbortLoadError ==
    /\ pc = "start"
    /\ recon = "corrupt"
    /\ pc' = "aborted"
    /\ UNCHANGED <<recon, points_3d, images, idx, point_labels,
                   visible_3d_indices, valid_2d_coords, final_labels,
                   warned, output>>

\* reconstruction.points3D is empty: return
AbortNoPoints ==
    /\ pc = "start"
    /\ recon = "ok"
    /\ points_3d = << >>
    /\ pc' = "aborted"
    /\ UNCHANGED <<recon, points_3d, images, idx, point_labels,
                   visible_3d_indices, valid_2d_coords, final_labels,
                   warned, output>>

\* the model loads and holds points: point_labels = [[] ...]
Load ==
    /\ pc = "start"
    /\ recon = "ok"
    /\ points_3d # << >>
    /\ point_labels' = [i \in 1..Len(points_3d) |-> << >>]
    /\ pc' = "loop"
    /\ UNCHANGED <<recon, points_3d, images, idx, visible_3d_indices,
                   valid_2d_coords, final_labels, warned, output>>

\* the next image has no mask file: continue
SkipImageRaises ==
    /\ pc = "loop"
    /\ idx < Len(images)
    /\ images[idx + 1].mask = "absent"
    /\ idx' = idx + 1
    /\ pc' = "crashed"
    /\ UNCHANGED <<recon, points_3d, images, point_labels,
                   visible_3d_indices, valid_2d_coords, final_labels,
                   warned, output>>
SkipImage ==
    /\ pc = "loop"
    /\ idx < Len(images)
    /\ images[idx + 1].mask = "absent"
    /\ idx' = idx + 1
    /\ UNCHANGED <<recon, points_3d, images, pc, point_labels,
                   visible_3d_indices, valid_2d_coords, final_labels,
                   warned, output>>

\* the next image's mask file exists but Image.open raises: the exception
\* is not caught and leaves fuse_semantics
DecodeError ==
    /\ pc = "loop"
    /\ idx < Len(images)
    /\ images[idx + 1].mask = "corrupt"
    /\ idx' = idx + 1
    /\ pc' = "crashed"
    /\ UNCHANGED <<recon, points_3d, images, point_labels,
                   visible_3d_indices, valid_2d_coords, final_labels,
                   warned, output>>

\* the next image has a readable mask: project, test, look up, record
ProjectImage ==
    /\ pc = "loop"
    /\ idx < Len(images)
    /\ images[idx + 1].mask \in Readable
    /\ LET img == images[idx + 1]
           ids == Visible3dIndices(img, points_3d)
           coords == Valid2dCoords(img, points_3d)
       IN  /\ visible_3d_indices' = ids
           /\ valid_2d_coords' = coords
           /\ point_labels' = Gather(point_labels, MaskArray(img.mask), ids, coords, 1)
    /\ idx' = idx + 1
    /\ UNCHANGED <<recon, points_3d, images, pc, final_labels, warned, output>>

\* the loop is over: majority vote per point
Aggregate ==
    /\ pc = "loop"
    /\ idx = Len(images)
    /\ final_labels' = [i \in 1..Len(points_3d) |-> Resolve(point_labels[i])]
    /\ pc' = "colorize"
    /\ UNCHANGED <<recon, points_3d, images, idx, point_labels,
                   visible_3d_indices, valid_2d_coords, warned, output>>

\* colour the points and write the point cloud
Save ==
    /\ pc = "colorize"
    /\ warned' = (Max({final_labels[i] : i \in 1..Len(final_labels)}) = 0)
    /\ output' = <<[points |-> points_3d, colors |-> PointColors(final_labels)]>>
    /\ pc' = "done"
    /\ UNCHANGED <<recon, points_3d, images, idx, point_labels,
                   visible_3d_indices, valid_2d_coords, final_labels>>

Next ==
    \/ AbortNoModel
    \/ AbortLoadError
    \/ AbortNoPoints
    \/ Load
    \/ SkipImage
    \/ DecodeError
    \/ ProjectImage
    \/ Aggregate
    \/ Save

Spec == Init /\ [][Next]_vars

\* ------------------------------------------------- the run as a function
\* the vote lists after the loop over imgs from position k on; an
\* undecodable mask ends the run where it stands
RECURSIVE FuseFrom(_, _, _, _)
FuseFrom(labels, imgs, pts, k) ==
    IF k > Len(imgs) THEN labels
    ELSE IF imgs[k].mask = "absent" THEN FuseFrom(labels, imgs, pts, k + 1)
    ELSE IF imgs[k].mask = "corrupt" THEN labels
    ELSE FuseFrom(Gather(labels, MaskArray(imgs[k].mask),
                         Visible3dIndices(imgs[k], pts),
                         Valid2dCoords(imgs[k], pts), 1),
                  imgs, pts, k + 1)

NoVotes(pts) == [i \in 1..Len(pts) |-> << >>]

\* final_labels of a run over imgs and pts
FinalLabels(imgs, pts) ==
    LET labels == FuseFrom(NoVotes(pts), imgs, pts, 1)
    IN  [i \in 1..Len(pts) |-> Resolve(labels[i])]

\* ------------------------------------------------ vocabulary of the claims
Range(s) == {s[k] : k \in 1..Len(s)}
Min(S) == CHOOSE m \in S : \A n \in S : m <= n

\* the labels of maximal occurrence count in a vote list
TopLabels(votes) ==
    {l \in Range(votes) : \A m \in Range(votes) : Count(votes, l) >= Count(votes, m)}

\* the majority vote has been taken
Resolved == pc \in {"colorize", "done"}

PointIds == 1..Len(points_3d)

\* ------------------------------------------------------------------- C1
\* C1: when two or more labels are tied for the highest count in a point's
\* vote list, the consensus label is the lowest of the tied labels.
C1_LowestTiedLabelWins ==
    Resolved =>
        \A i \in PointIds :
            Cardinality(TopLabels(point_labels[i])) >= 2 =>
                final_labels[i] = Min(TopLabels(point_labels[i]))

\* ------------------------------------------------------------------- C2
\* C2: every permutation of the order in which the images are iterated
\* yields the same consensus label for every point.
C2_ImageOrderIrrelevant ==
    pc = "done" =>
        \A perm \in Permutations(1..Len(images)) :
            FinalLabels([k \in 1..Len(images) |-> images[perm[k]]], points_3d)
                = final_labels

\* ------------------------------------------------------------------- C3
\* C3: after all images are processed a point with no votes has consensus
\* label 0, and any other point has a label of its vote list whose count is
\* maximal among the labels of that list.
C3_ConsensusIsMajority ==
    Resolved =>
        \A i \in PointIds :
            IF point_labels[i] = << >> THEN final_labels[i] = 0
            ELSE final_labels[i] \in TopLabels(point_labels[i])

\* two points are resolved: one that no image could see and has no votes,
\* one whose three votes are split two to one with the minority voting first
C3_Witness ==
    /\ pc = "done"
    /\ \E i, j \in PointIds :
        /\ point_labels[i] = << >>
        /\ \A k \in 1..Len(images) :
               /\ images[k].mask \in Readable
               /\ i \notin Range(Visible3dIndices(images[k], points_3d))
        /\ Len(point_labels[j]) = 3
        /\ point_labels[j][1] # point_labels[j][2]
        /\ point_labels[j][2] = point_labels[j][3]
        /\ final_labels[j] = point_labels[j][2]

\* ------------------------------------------------------------------- C4
\* the camera-space depth of point p in image img: the third component of
\* P.[x, y, z, 1]
Depth(img, p) == ProjectPoint(ProjMatrix(img), p)[3]

\* the de-homogenized pixel of point p in image img lies in the image
\* rectangle, whatever its depth
PixelInside(img, p) ==
    LET h == ProjectPoint(ProjMatrix(img), p)
    IN  /\ h[3] # 0
        /\ InBounds(<<Divide(h[1], h[3]), Divide(h[2], h[3])>>, Width, Height)

\* the mask value under the de-homogenized pixel of point p in image img
PixelLabel(img, p) ==
    LET h == ProjectPoint(ProjMatrix(img), p)
    IN  MaskAt(MaskArray(img.mask), Trunc(Divide(h[1], h[3])),
               Trunc(Divide(h[2], h[3])))

\* C4: a loop iteration appends nothing to the vote list of a point whose
\* camera-space depth in that iteration's image is <= 0.
C4_BehindCameraNeverVotes ==
    [][idx' = idx + 1 =>
        \A i \in PointIds :
            Depth(images[idx + 1], points_3d[i]) <= 0 =>
                point_labels'[i] = point_labels[i]]_vars

\* an image with a readable mask has just been projected; one point lies
\* behind its camera yet de-homogenizes to a pixel of the image that holds
\* a positive label, another lies at depth 0; neither has a vote
C4_Witness ==
    /\ pc = "loop"
    /\ idx >= 1
    /\ images[idx].mask \in Readable
    /\ \E i, j \in PointIds :
        /\ Depth(images[idx], points_3d[i]) < 0
        /\ PixelInside(images[idx], points_3d[i])
        /\ PixelLabel(images[idx], points_3d[i]) > 0
        /\ point_labels[i] = << >>
        /\ Depth(images[idx], points_3d[j]) = 0
        /\ point_labels[j] = << >>

\* ------------------------------------------------------------------- C5
\* the images projected so far
Projected == {j \in 1..idx : images[j].mask \in Readable}

\* C5: in the image projected last, a point in front of the camera is used
\* for a mask lookup iff its pixel (px, py) = (u/w, v/w) satisfies
\* 0 <= px < width and 0 <= py < height, and every truncated index used to
\* read the mask lies in [0, width-1] x [0, height-1].
C5_BoundsTest ==
    Projected # {} =>
        LET homo == Points2dHomo(images[Max(Projected)], points_3d)
        IN  /\ \A i \in PointIds :
                   homo[i][3] > 0 =>
                       (i \in Range(visible_3d_indices)
                           <=> /\ 0 <= homo[i][1]
                               /\ homo[i][1] < Width * homo[i][3]
                               /\ 0 <= homo[i][2]
                               /\ homo[i][2] < Height * homo[i][3])
            /\ \A k \in 1..Len(valid_2d_coords) :
                   /\ valid_2d_coords[k][1] \in 0..(Width - 1)
                   /\ valid_2d_coords[k][2] \in 0..(Height - 1)

\* the image projected last shows a point whose px is in bounds and not
\* whole, which is looked up at the truncated pixel, and a point whose px
\* lies strictly between -1 and 0, which is not looked up
C5_Witness ==
    /\ Projected # {}
    /\ LET homo == Points2dHomo(images[Max(Projected)], points_3d)
       IN  \E i, j \in PointIds :
               /\ homo[i][3] > 0
               /\ homo[i][1] % homo[i][3] # 0
               /\ \E k \in 1..Len(visible_3d_indices) :
                      /\ visible_3d_indices[k] = i
                      /\ valid_2d_coords[k][1] * homo[i][3] < homo[i][1]
               /\ homo[j][3] > 0
               /\ homo[j][1] < 0
               /\ -homo[j][1] < homo[j][3]
               /\ j \notin Range(visible_3d_indices)

\* ------------------------------------------------------------------- C6
\* C6: every entry of every vote list is a strictly positive label.
C6_VotesArePositive ==
    \A i \in 1..Len(point_labels) :
        \A k \in 1..Len(point_labels[i]) : point_labels[i][k] > 0

\* a point passed the depth and the bounds test of the image projected
\* last, the mask holds 0 under its pixel, and the point has no vote
C6_Witness ==
    /\ Projected # {}
    /\ \E k \in 1..Len(visible_3d_indices) :
           /\ MaskAt(MaskArray(images[Max(Projected)].mask),
                     valid_2d_coords[k][1], valid_2d_coords[k][2]) = 0
           /\ point_labels[visible_3d_indices[k]] = << >>
           /\ Cardinality(Projected) = 1

\* ------------------------------------------------------------------- C7
IsPrefix(s, t) == Len(s) <= Len(t) /\ SubSeq(t, 1, Len(s)) = s

\* C7: no vote list is longer than the number of images processed so far,
\* which is at most the number of images; a step leaves every vote list as
\* it is or appends one vote to it.
C7_OneVotePerImage ==
    /\ [](/\ idx <= Len(images)
          /\ \A i \in 1..Len(point_labels) : Len(point_labels[i]) <= idx)
    /\ [][\A i \in 1..Len(point_labels) :
             /\ IsPrefix(point_labels[i], point_labels'[i])
             /\ Len(point_labels'[i]) <= Len(point_labels[i]) + 1
             /\ Len(point_labels'[i]) > Len(point_labels[i]) => idx' = idx + 1]_vars

\* the loop is over: one point got a vote from every one of two or more
\* images, another from some images only
C7_Witness ==
    /\ pc = "done"
    /\ Len(images) >= 2
    /\ \E i, j \in PointIds :
           /\ Len(point_labels[i]) = Len(images)
           /\ Len(point_labels[j]) < Len(images)
           /\ Len(point_labels[j]) > 0

\* ------------------------------------------------------------------- C8
\* the images that have a mask file
WithMaskFile(imgs) == SelectSeq(imgs, LAMBDA img : img.mask # "absent")

\* C8: the iteration of an image without mask file changes no vote list and
\* raises nothing, and the vote lists are at any time those of a run over
\* the images processed so far with the mask-less images taken out.
C8_MissingMaskSkipped ==
    /\ [][(idx' = idx + 1 /\ images[idx + 1].mask = "absent") =>
             (point_labels' = point_labels /\ pc' = pc)]_vars
    /\ [](pc \in {"loop", "colorize", "done"} =>
             point_labels = FuseFrom(NoVotes(points_3d),
                                     WithMaskFile(SubSeq(images, 1, idx)),
                                     points_3d, 1))

\* the run is over; an image without mask file stood between two images
\* with readable masks, and some point has a vote from each of those two
C8_Witness ==
    /\ pc = "done"
    /\ Len(images) = 3
    /\ images[1].mask \in Readable
    /\ images[2].mask = "absent"
    /\ images[3].mask \in Readable
    /\ \E i \in PointIds : Len(point_labels[i]) = 2

\* ------------------------------------------------------------------- C9
\* the reconstruction is missing, unreadable, without points or without images
FatalInput == recon # "ok" \/ points_3d = << >> \/ images = << >>

\* C9: on a missing, unreadable, point-less or image-less reconstruction the
\* run never gets past its start, projects nothing and writes no point cloud.
C9_FatalInputAborts ==
    FatalInput => (output = None /\ Projected = {} /\ pc # "done")

\* ------------------------------------------------------------------ C10
\* C10: once an image whose mask file exists but does not decode has been
\* reached, the run is still going on or has ended with its point cloud
\* written: it has not been left by an error.
C10_DecodeFailureSkipped ==
    (\E j \in 1..idx : images[j].mask = "corrupt") =>
        /\ pc \in {"loop", "colorize", "done"}
        /\ pc = "done" => output # None

\* ------------------------------------------------------------------ C11
\* the vote list of point i after the iteration of the readable image img:
\* the mask value under the point's own truncated pixel is appended when
\* the point is in front of the camera and in bounds and the value is
\* positive, and nothing otherwise
OwnVote(img, i) ==
    IF Depth(img, points_3d[i]) > 0 /\ PixelInside(img, points_3d[i])
          /\ PixelLabel(img, points_3d[i]) > 0
    THEN Append(point_labels[i], PixelLabel(img, points_3d[i]))
    ELSE point_labels[i]

\* C11: the iteration of an image with a readable mask appends, for every
\* point that passes the depth and the bounds test, the mask value at that
\* point's own truncated pixel (when positive) to the vote list of that same
\* point index, and changes no other vote list, whatever points before it
\* lie behind the camera; a point seen once ends with that label, a point
\* never observed with 0.
C11_VoteGoesToOwnPoint ==
    /\ [][(idx' = idx + 1 /\ images[idx + 1].mask \in Readable) =>
             \A i \in PointIds : point_labels'[i] = OwnVote(images[idx + 1], i)]_vars
    /\ [](Resolved =>
             \A i \in PointIds :
                 /\ Len(point_labels[i]) = 1 => final_labels[i] = point_labels[i][1]
                 /\ point_labels[i] = << >> => final_labels[i] = 0)

\* the run over a single image is over: a point behind the camera comes
\* before a point that passed both tests over a positive mask value; the
\* second has that value as its vote and its label, the first has label 0
C11_Witness ==
    /\ pc = "done"
    /\ Len(images) = 1
    /\ images[1].mask \in Readable
    /\ \E i, j \in PointIds :
           /\ i < j
           /\ Depth(images[1], points_3d[i]) <= 0
           /\ Depth(images[1], points_3d[j]) > 0
           /\ PixelInside(images[1], points_3d[j])
           /\ point_labels[j] = <<PixelLabel(images[1], points_3d[j])>>
           /\ final_labels[j] = PixelLabel(images[1], points_3d[j])
           /\ point_labels[i] = << >>
           /\ final_labels[i] = 0

\* ------------------------------------------------------------------ C12
\* every point has consensus label 0
AllUnlabeled == \A i \in 1..Len(final_labels) : final_labels[i] = 0

\* C12: the warning is printed by the step after the resolve pass and by no
\* other; a run whose points all end with label 0 goes on from the resolve
\* pass to its end, where the warning has been printed and the point cloud
\* written holds the points in their original order with one colour per
\* point, the same gray for all.
C12_AllUnlabeledIsGray ==
    /\ [][warned' # warned => (pc = "colorize" /\ pc' = "done" /\ warned')]_vars
    /\ [](warned => (pc = "done" /\ AllUnlabeled))
    /\ []((pc = "colorize" /\ AllUnlabeled) => ENABLED Save)
    /\ []((pc = "done" /\ AllUnlabeled) =>
             /\ warned
             /\ output # None
             /\ output[1].points = points_3d
             /\ Len(output[1].colors) = Len(points_3d)
             /\ \A i \in PointIds : output[1].colors[i] = Gray)

\* the run is over with the warning printed: two points, and an image with
\* a readable mask was projected without giving either of them a vote
C12_Witness ==
    /\ pc = "done"
    /\ warned
    /\ Len(points_3d) >= 2
    /\ Projected # {}
    /\ \A i \in PointIds : point_labels[i] = << >>
    /\ output # None
====
